---- MODULE Spec2Model ----
(***************************************************************************)
(* Model of scrape.py: the session check of main(), the interactive login, *)
(* the paginated topic listing, the per-topic fetch and normalisation of   *)
(* posts, and the three kinds of output file written by scrape_posts().    *)
(***************************************************************************)
EXTENDS Integers, Sequences, FiniteSets, TLC

(* ---------------------------- bounds ----------------------------------- *)
\* topic summaries the listing returns, over all its pages
MaxTopics == 2
\* posts in the post stream of one topic
MaxPosts == 2
\* post ids 1..MaxPostId
MaxPostId == 2

(* ------------------------- Python values ------------------------------- *)
\* Python's None (JSON null); every other value of the model is >= 0
None == -1

\* dict.get(k, default): a dict is a function whose DOMAIN is its key set
Get(d, k, default) == IF k \in DOMAIN d THEN d[k] ELSE default

\* d[k] = v on a dict
DictSet(d, k, v) == [x \in DOMAIN d \cup {k} |-> IF x = k THEN v ELSE d[x]]

EmptyDict == [x \in {} |-> 0]

\* Python truthiness of an id-like value: None and 0 are falsy
Truthy(v) == v # None /\ v # 0

(* --------------------------- timestamps -------------------------------- *)
\* A timestamp string "YYYY-MM-DDTHH:MM:SS[.ffffff]Z" is modelled by the
\* second it names (counted from 2025-01-01T00:00:00) and its fraction:
\* NoFrac when the string has no ".", else the digits after the ".".
NoFrac == <<None>>

\* a datetime: whole seconds from 2025-01-01T00:00:00 and microseconds
DateTime(sec, micro) == [sec |-> sec, micro |-> micro]

\* DATE_FROM = datetime(2025, 1, 1)
DATE_FROM == DateTime(0, 0)
\* DATE_TO = datetime(2025, 4, 14): 31 + 28 + 31 + 13 days later
DATE_TO == DateTime(103 * 86400, 0)

\* datetime comparison: by the fields, most significant first
DateLe(a, b) == a.sec < b.sec \/ (a.sec = b.sec /\ a.micro <= b.micro)

RECURSIVE Pow10(_)
Pow10(n) == IF n = 0 THEN 1 ELSE 10 * Pow10(n - 1)

RECURSIVE DigitsValue(_)
DigitsValue(ds) ==
  IF ds = <<>> THEN 0
  ELSE 10 * DigitsValue(SubSeq(ds, 1, Len(ds) - 1)) + ds[Len(ds)]

\* %f of strptime: one to six digits, padded with zeros on the right
MatchesFracFormat(s) == s.frac # NoFrac /\ Len(s.frac) >= 1 /\ Len(s.frac) <= 6
MatchesPlainFormat(s) == s.frac = NoFrac

\* parse_date: err is TRUE when neither format matches and ValueError leaves
\* the function, else value is the datetime
parse_date(s) ==
  IF MatchesFracFormat(s)
  THEN [err |-> FALSE,
        value |-> DateTime(s.sec, DigitsValue(s.frac) * Pow10(6 - Len(s.frac)))]
  ELSE IF MatchesPlainFormat(s)
  THEN [err |-> FALSE, value |-> DateTime(s.sec, 0)]
  ELSE [err |-> TRUE, value |-> DateTime(0, 0)]

\* the range with its last instant left out
InRange_exclusive(created) ==
  DateLe(DATE_FROM, created) /\ DateLe(created, DATE_TO) /\ created # DATE_TO

\* DATE_FROM <= created_at <= DATE_TO
InRange(created) == DateLe(DATE_FROM, created) /\ DateLe(created, DATE_TO)

(* ------------------------- text cleaning ------------------------------- *)
\* A cooked body is a sequence of tokens: tags, blanks and words.
IsTag(t) == t \in {"<p>", "</p>", "<br>"}
IsBlank(t) == t \in {" ", "\n"}

\* BeautifulSoup(raw, "html.parser").get_text(): the text without the tags
get_text(raw) == SelectSeq(raw, LAMBDA t : ~IsTag(t))

RECURSIVE lstrip(_)
lstrip(s) == IF s # <<>> /\ IsBlank(Head(s)) THEN lstrip(Tail(s)) ELSE s

RECURSIVE rstrip(_)
rstrip(s) ==
  IF s # <<>> /\ IsBlank(s[Len(s)]) THEN rstrip(SubSeq(s, 1, Len(s) - 1)) ELSE s

\* str.strip()
strip(s) == rstrip(lstrip(s))

(* ----------------------- topic normalisation --------------------------- *)
\* resolution of the accepted-answer id from the topic detail
accepted_answer_id_of(topic_data) ==
  Get(topic_data, "accepted_answer", Get(topic_data, "accepted_answer_post_id", None))

\* the reply-count map built from the posts that have a text only
RECURSIVE reply_counter_of_texts(_, _)
reply_counter_of_texts(posts, n) ==
  IF n = 0 THEN EmptyDict
  ELSE LET counter  == reply_counter_of_texts(posts, n - 1)
           reply_to == Get(posts[n], "reply_to_post_number", None)
       IN  IF reply_to # None /\ strip(get_text(Get(posts[n], "cooked", <<>>))) # <<>>
           THEN DictSet(counter, reply_to, Get(counter, reply_to, 0) + 1)
           ELSE counter

\* the reply-count map after the first n posts of the stream
RECURSIVE reply_counter_of(_, _)
reply_counter_of(posts, n) ==
  IF n = 0 THEN EmptyDict
  ELSE LET counter  == reply_counter_of(posts, n - 1)
           reply_to == Get(posts[n], "reply_to_post_number", None)
       IN  IF reply_to # None
           THEN DictSet(counter, reply_to, Get(counter, reply_to, 0) + 1)
           ELSE counter

\* every post marked as soon as the topic declares an accepted answer
is_accepted_any(post, accepted_answer_id) == Truthy(accepted_answer_id)

\* is_accepted_answer of one post
is_accepted(post, accepted_answer_id) ==
  IF Truthy(accepted_answer_id) THEN post["id"] = accepted_answer_id ELSE FALSE

\* the body of the per-post loop: <<>> when the post is skipped (empty text,
\* or KeyError on "id" / "post_number" caught by the except), else <<record>>
post_data_of(topic, post, reply_counter, accepted_answer_id) ==
  LET clean_content == strip(get_text(Get(post, "cooked", <<>>)))
  IN  IF clean_content = <<>> THEN <<>>
      ELSE IF ~({"id", "post_number"} \subseteq DOMAIN post) THEN <<>>
      ELSE << [ topic_id             |-> topic["id"],
                post_id              |-> post["id"],
                post_number          |-> post["post_number"],
                reply_to_post_number |-> Get(post, "reply_to_post_number", None),
                is_reply             |-> Get(post, "reply_to_post_number", None) # None,
                reply_count          |-> Get(reply_counter, post["post_number"], 0),
                is_accepted_answer   |-> is_accepted(post, accepted_answer_id),
                content              |-> clean_content ] >>

\* topic_posts after the first n posts of the stream
RECURSIVE topic_posts_of(_, _, _, _, _)
topic_posts_of(topic, posts, n, reply_counter, accepted_answer_id) ==
  IF n = 0 THEN <<>>
  ELSE topic_posts_of(topic, posts, n - 1, reply_counter, accepted_answer_id)
         \o post_data_of(topic, posts[n], reply_counter, accepted_answer_id)

\* f"topic_{topic['id']}.json"
topic_filename(id) == <<"topic_", id, ".json">>

\* the per-topic document that is dumped to topic_filename
topic_data_to_save(topic, topic_posts) ==
  [ topic_metadata |-> [ topic_id    |-> topic["id"],
                         created_at  |-> topic["created_at"],
                         posts_count |-> Len(topic_posts) ],
    posts |-> topic_posts ]

(* ------------------------------ state --------------------------------- *)
VARIABLES
  pc,               \* where the run is: "main", "login", "list", "topics", "done", "aborted"
  abortCause,       \* the exception that ended the run, "none" while it runs
  authFile,         \* AUTH_STATE_FILE: "absent", or the session it holds: "valid" / "invalid"
  probeResult,      \* result of is_authenticated(): "none" (not called), "ok", "failed"
  loginCount,       \* calls of login_and_save_auth()
  authWrites,       \* writes of AUTH_STATE_FILE by context.storage_state()
  page_num,         \* scrape_posts: the next listing page
  requested,        \* the listing pages requested so far, in order
  pageTopics,       \* the topic list each parsed listing page carried, in order
  all_topics,       \* scrape_posts: all_topics
  idx,              \* position of the topic loop in all_topics (1-based)
  processed_topics, \* scrape_posts: processed_topics
  fetched,          \* positions in all_topics whose detail was requested, in order
  outcome,          \* per position passed by the loop, how its iteration ended
  lastGoto,         \* result of the last detail page.goto: "none", "ok", "timeout"
  topic_data,       \* <<topic_data>> of the last iteration that reached the post loop
  topic_posts,      \* topic_posts of that iteration
  all_posts,        \* scrape_posts: all_posts
  topicFiles,       \* OUTPUT_DIR: per-topic files written by this run, by filename
  combinedFile,     \* OUTPUT_DIR/discourse_posts.json: <<>> until written, else <<all_posts>>
  summaryFile       \* OUTPUT_DIR/scrape_summary.json: <<>> until written, else <<summary>>

vars == << pc, abortCause, authFile, probeResult, loginCount, authWrites,
           page_num, requested, pageTopics, all_topics, idx, processed_topics,
           fetched, outcome, lastGoto, topic_data, topic_posts, all_posts,
           topicFiles, combinedFile, summaryFile >>

sessionVars == << authFile, probeResult, loginCount, authWrites >>
listVars == << page_num, requested, pageTopics, all_topics >>
loopVars == << idx, processed_topics, fetched, outcome, lastGoto, topic_data,
               topic_posts, all_posts, topicFiles >>
fileVars == << combinedFile, summaryFile >>

Init ==
  /\ pc = "main"
  /\ abortCause = "none"
  /\ authFile \in {"absent", "valid", "invalid"}
  /\ probeResult = "none"
  /\ loginCount = 0
  /\ authWrites = 0
  /\ page_num = 0
  /\ requested = <<>>
  /\ pageTopics = <<>>
  /\ all_topics = <<>>
  /\ idx = 1
  /\ processed_topics = 0
  /\ fetched = <<>>
  /\ outcome = <<>>
  /\ lastGoto = "none"
  /\ topic_data = <<>>
  /\ topic_posts = <<>>
  /\ all_posts = <<>>
  /\ topicFiles = EmptyDict
  /\ combinedFile = <<>>
  /\ summaryFile = <<>>

(* ------------------------------ session -------------------------------- *)
\* What the probe's page can do: a usable session gets the JSON page unless
\* the navigation or the wait for "pre" times out; an unusable one gets a
\* page that is not JSON, or a timeout.
ProbeOutcomes(auth) ==
  IF auth = "valid" THEN {"json", "timeout"} ELSE {"not_json", "timeout"}

\* is_authenticated(page)
is_authenticated(page) == page = "json"

\* main() going on to scrape after a failed probe
Main_NoRelogin ==
  /\ pc = "main"
  /\ IF authFile = "absent"
     THEN /\ pc' = "login"
          /\ UNCHANGED probeResult
     ELSE \E page \in ProbeOutcomes(authFile) :
            /\ probeResult' = (IF is_authenticated(page) THEN "ok" ELSE "failed")
            /\ pc' = "list"
  /\ UNCHANGED << abortCause, authFile, loginCount, authWrites >>
  /\ UNCHANGED << listVars, loopVars, fileVars >>

\* main(): the branch on os.path.exists(AUTH_STATE_FILE) and on the probe
Main ==
  /\ pc = "main"
  /\ IF authFile = "absent"
     THEN /\ pc' = "login"
          /\ UNCHANGED probeResult
     ELSE \E page \in ProbeOutcomes(authFile) :
            IF ~is_authenticated(page)
            THEN /\ probeResult' = "failed"
                 /\ pc' = "login"
            ELSE /\ probeResult' = "ok"
                 /\ pc' = "list"
  /\ UNCHANGED << abortCause, authFile, loginCount, authWrites >>
  /\ UNCHANGED << listVars, loopVars, fileVars >>

\* login_and_save_auth(): the human resumes the paused page having logged in
\* or not; the state of the context is stored either way. A timeout of the
\* navigation to the login page leaves the function as an exception.
login_and_save_auth ==
  /\ pc = "login"
  /\ loginCount' = loginCount + 1
  /\ \E human \in {"logged_in", "not_logged_in", "goto_timeout"} :
       IF human = "goto_timeout"
       THEN /\ pc' = "aborted"
            /\ abortCause' = "login_timeout"
            /\ UNCHANGED << authFile, authWrites >>
       ELSE /\ authFile' = (IF human = "logged_in" THEN "valid" ELSE "invalid")
            /\ authWrites' = authWrites + 1
            /\ pc' = "list"
            /\ UNCHANGED abortCause
  /\ UNCHANGED probeResult
  /\ UNCHANGED << listVars, loopVars, fileVars >>

(* ------------------------------ listing -------------------------------- *)
\* sequences over S of length lo..hi
SeqsOf(S, lo, hi) == UNION { [1..n -> S] : n \in lo..hi }

\* A fetched page: goto is the outcome of page.goto; pre and content are what
\* json.loads makes of page.inner_text("pre") and of page.content(): <<>> when
\* it raises, <<document>> when it parses.
Page(goto, pre, content) == [goto |-> goto, pre |-> pre, content |-> content]

\* the pages a document can arrive as: in the "pre" element, or only as the
\* content of the page, also when the navigation timed out
DocPage(form, doc) ==
  CASE form = "pre"     -> Page("ok", <<doc>>, <<>>)
    [] form = "content" -> Page("ok", <<>>, <<doc>>)
    [] form = "stale"   -> Page("timeout", <<>>, <<doc>>)

\* the pages that carry no document
FailedPages == { Page("timeout", <<>>, <<>>), Page("ok", <<>>, <<>>) }

\* the topic lists one page can carry: no topic twice on the same page
PageLists(Topics, most) ==
  { ts \in SeqsOf(Topics, 0, most) :
      \A i, j \in DOMAIN ts : i # j => ts[i]["id"] # ts[j]["id"] }

\* the listing documents the next page can carry once `served` summaries were
\* listed: any number of the summaries left (none ends the pagination; a topic
\* of an earlier page may come again), or an error document without
\* "topic_list"
ListingDocs(Topics, served) ==
  { [topic_list |-> [topics |-> ts]] : ts \in PageLists(Topics, MaxTopics - served) }
  \cup { [errors |-> <<"invalid_access">>] }

\* what the server answers to the request of the next listing page
ListingPages(Topics, auth, served) ==
  IF auth = "valid"
  THEN FailedPages
         \cup { DocPage(form, doc) :
                  form \in {"pre", "content"}, doc \in ListingDocs(Topics, served) }
  ELSE FailedPages

\* try: json.loads(page.inner_text("pre")) except: json.loads(page.content())
\* <<>> when the second json.loads raises too
load_listing(page) == IF page.pre # <<>> THEN page.pre ELSE page.content

\* the page's topics put in front of the list
extend_front(list, topics) == topics \o list

\* all_topics.extend(topics)
extend(list, topics) == list \o topics

\* one turn of the while loop of scrape_posts
ListPage(Topics) ==
  /\ pc = "list"
  /\ requested' = Append(requested, page_num)
  /\ \E page \in ListingPages(Topics, authFile, Len(all_topics)) :
       IF page.goto = "timeout"
       THEN /\ pc' = "aborted"
            /\ abortCause' = "list_timeout"
            /\ UNCHANGED << page_num, pageTopics, all_topics >>
       ELSE IF load_listing(page) = <<>>
       THEN /\ pc' = "aborted"
            /\ abortCause' = "list_not_json"
            /\ UNCHANGED << page_num, pageTopics, all_topics >>
       ELSE LET data   == load_listing(page)[1]
                topics == Get(Get(data, "topic_list", EmptyDict), "topics", <<>>)
            IN  /\ pageTopics' = Append(pageTopics, topics)
                /\ UNCHANGED abortCause
                /\ IF topics = <<>>
                   THEN /\ pc' = "topics"
                        /\ UNCHANGED << page_num, all_topics >>
                   ELSE /\ all_topics' = extend(all_topics, topics)
                        /\ page_num' = page_num + 1
                        /\ pc' = "list"
  /\ UNCHANGED << sessionVars, loopVars, fileVars >>

(* ----------------------------- topic loop ------------------------------- *)
\* what the server answers to the request of a topic's detail: the detail
\* document, directly or through the fallback, also after a navigation that
\* timed out, or no document at all
DetailPages(Details) ==
  FailedPages
  \cup { DocPage(form, doc) : form \in {"pre", "content", "stale"}, doc \in Details }

\* try: page.goto; json.loads(inner_text("pre"))
\* except: try: json.loads(page.content()) except: continue
\* <<>> when the topic is given up
load_topic(page) ==
  IF page.goto = "ok" /\ page.pre # <<>> THEN page.pre ELSE page.content

\* topicFiles after open(topic_filepath, "w") and json.dump
write_topic_file(files, topic, posts) ==
  DictSet(files, topic_filename(topic["id"]), topic_data_to_save(topic, posts))

\* one iteration of "for topic in all_topics"
ProcessTopic(Details) ==
  /\ pc = "topics"
  /\ idx <= Len(all_topics)
  /\ LET topic   == all_topics[idx]
         created == parse_date(topic["created_at"])
     IN
     IF created.err
     THEN /\ pc' = "aborted"
          /\ abortCause' = "timestamp"
          /\ UNCHANGED loopVars
     ELSE
     /\ UNCHANGED << pc, abortCause >>
     /\ idx' = idx + 1
     /\ IF ~InRange(created.value)
        THEN /\ outcome' = Append(outcome, "out_of_range")
             /\ UNCHANGED << processed_topics, fetched, lastGoto, topic_data,
                             topic_posts, all_posts, topicFiles >>
        ELSE
        /\ processed_topics' = processed_topics + 1
        /\ fetched' = Append(fetched, idx)
        /\ \E page \in DetailPages(Details) :
             /\ lastGoto' = page.goto
             /\ IF load_topic(page) = <<>>
                THEN /\ outcome' = Append(outcome, "fetch_failed")
                     /\ UNCHANGED << topic_data, topic_posts, all_posts, topicFiles >>
                ELSE
                LET data  == load_topic(page)[1]
                    posts == Get(Get(data, "post_stream", EmptyDict), "posts", <<>>)
                    accepted_answer_id == accepted_answer_id_of(data)
                    reply_counter == reply_counter_of(posts, Len(posts))
                    new_posts == topic_posts_of(topic, posts, Len(posts),
                                                reply_counter, accepted_answer_id)
                IN
                IF posts = <<>>
                THEN /\ outcome' = Append(outcome, "no_posts")
                     /\ UNCHANGED << topic_data, topic_posts, all_posts, topicFiles >>
                ELSE /\ topic_data' = << data >>
                     /\ topic_posts' = new_posts
                     /\ all_posts' = all_posts \o new_posts
                     /\ IF new_posts # <<>>
                        THEN /\ topicFiles' = write_topic_file(topicFiles, topic, new_posts)
                             /\ outcome' = Append(outcome, "file_written")
                        ELSE /\ outcome' = Append(outcome, "no_survivor")
                             /\ UNCHANGED topicFiles
  /\ UNCHANGED << sessionVars, listVars, fileVars >>

(* ------------------------------ outputs --------------------------------- *)
\* the positions of all_topics the summary's comprehension keeps
RECURSIVE individual_topics_of(_, _)
individual_topics_of(topics, n) ==
  IF n = 0 THEN <<>>
  ELSE individual_topics_of(topics, n - 1)
         \o (IF InRange(parse_date(topics[n]["created_at"]).value)
             THEN << topic_filename(topics[n]["id"]) >>
             ELSE <<>>)

\* the summary document
summary_of(topics, processed, posts) ==
  [ total_topics      |-> processed,
    total_posts       |-> Len(posts),
    combined_posts    |-> "discourse_posts.json",
    individual_topics |-> individual_topics_of(topics, Len(topics)) ]

\* after the topic loop: the combined file, then the summary file
WriteOutputs ==
  /\ pc = "topics"
  /\ idx > Len(all_topics)
  /\ combinedFile' = << all_posts >>
  /\ summaryFile' = << summary_of(all_topics, processed_topics, all_posts) >>
  /\ pc' = "done"
  /\ UNCHANGED << abortCause, sessionVars, listVars, loopVars >>

(* --------------------------- specifications ----------------------------- *)
\* creation timestamps on and around both ends of the range, with and without
\* a fraction, and one that matches neither format
StampFrom   == [sec |-> DATE_FROM.sec,     frac |-> NoFrac]
StampBefore == [sec |-> DATE_FROM.sec - 1, frac |-> <<9, 9, 9>>]
StampTo     == [sec |-> DATE_TO.sec,       frac |-> <<0, 0, 0>>]
StampAfter  == [sec |-> DATE_TO.sec,       frac |-> <<0, 0, 0, 0, 0, 1>>]
StampBad    == [sec |-> DATE_TO.sec,       frac |-> <<>>]

Topic(id, created_at) == [id |-> id, created_at |-> created_at]

\* the topics of the category in the run model
RunTopics ==
  { Topic(1, StampFrom), Topic(2, StampTo), Topic(3, StampBefore),
    Topic(4, StampAfter), Topic(5, StampBad) }

Cooked(words) == <<"<p>">> \o words \o <<"</p>">>

Post(id, n, reply_to, words) ==
  [id |-> id, post_number |-> n, reply_to_post_number |-> reply_to,
   cooked |-> Cooked(words)]

\* the topic details of the run model: no posts, only a blank post, one post,
\* a post and its accepted reply
RunDetails ==
  { [post_stream |-> [posts |-> <<>>]],
    [post_stream |-> [posts |-> << Post(1, 1, None, <<" ">>) >>]],
    [post_stream |-> [posts |-> << Post(1, 1, None, <<"hi">>) >>]],
    [post_stream |-> [posts |-> << Post(1, 1, None, <<"hi">>),
                                   Post(2, 2, 1, <<"yes">>) >>],
     accepted_answer_post_id |-> 2] }

Next ==
  \/ Main
  \/ login_and_save_auth
  \/ ListPage(RunTopics)
  \/ ProcessTopic(RunDetails)
  \/ WriteOutputs

\* the whole run
Spec == Init /\ [][Next]_vars

(* ---- the topic loop alone, over every post stream within the bounds ---- *)
PostIds == 1..MaxPostId
PostNumbers == 1..MaxPosts

\* a post of the stream; has_id is FALSE for a post whose "id" key is missing
StreamPost(has_id, id, n, reply_to, words) ==
  LET keys == {"post_number", "reply_to_post_number", "cooked"}
                \cup (IF has_id THEN {"id"} ELSE {})
  IN  [k \in keys |-> CASE k = "id" -> id
                        [] k = "post_number" -> n
                        [] k = "reply_to_post_number" -> reply_to
                        [] OTHER -> Cooked(words)]

RECURSIVE SortedSeq(_)
SortedSeq(N) ==
  IF N = {} THEN <<>>
  ELSE LET m == CHOOSE x \in N : \A y \in N : x <= y
       IN  <<m>> \o SortedSeq(N \ {m})

Increasing(k, S) == { f \in [1..k -> S] : \A i, j \in 1..k : i < j => f[i] < f[j] }

\* a post has its id and a body that is blank or not, or lacks its id
PostShapes == { <<TRUE, <<" ">> >>, <<TRUE, <<"hi">> >>, <<FALSE, <<"hi">> >> }

\* post streams as the forum serves them: ordered by post_number, which is
\* unique in the topic, with ids in the order of creation; a reply may name
\* any post number, of a post of the stream or not
StreamsOver(N) ==
  LET k    == Cardinality(N)
      nums == SortedSeq(N)
  IN  { [i \in 1..k |->
           StreamPost(shapes[i][1], ids[i], nums[i], replies[i], shapes[i][2])] :
          ids \in Increasing(k, PostIds),
          replies \in [1..k -> {None} \cup PostNumbers],
          shapes \in [1..k -> PostShapes] }

PostStreams == UNION { StreamsOver(N) : N \in SUBSET PostNumbers }

\* the accepted-answer fields a topic detail can carry
AcceptedFields ==
  LET first  == { <<"accepted_answer", v>> : v \in {None} \cup PostIds }
      second == { <<"accepted_answer_post_id", v>> : v \in PostIds }
  IN  {{}} \cup { {f} : f \in first \cup second }
           \cup { {f, g} : f \in first, g \in second }

TopicDetail(posts, fields) ==
  [k \in {"post_stream"} \cup { f[1] : f \in fields } |->
     IF k = "post_stream" THEN [posts |-> posts]
     ELSE (CHOOSE f \in fields : f[1] = k)[2]]

PostDetails == { TopicDetail(ps, fs) : ps \in PostStreams, fs \in AcceptedFields }

\* the run at the entry of the topic loop, after a listing of one in-range
\* topic and the empty page that ended it, under a session the probe accepted
InitPosts ==
  \E t \in { Topic(1, StampFrom), Topic(2, StampTo) } :
    /\ pc = "topics"
    /\ abortCause = "none"
    /\ authFile = "valid"
    /\ probeResult = "ok"
    /\ loginCount = 0
    /\ authWrites = 0
    /\ page_num = 1
    /\ requested = <<0, 1>>
    /\ pageTopics = << <<t>>, <<>> >>
    /\ all_topics = <<t>>
    /\ idx = 1
    /\ processed_topics = 0
    /\ fetched = <<>>
    /\ outcome = <<>>
    /\ lastGoto = "none"
    /\ topic_data = <<>>
    /\ topic_posts = <<>>
    /\ all_posts = <<>>
    /\ topicFiles = EmptyDict
    /\ combinedFile = <<>>
    /\ summaryFile = <<>>

NextPosts ==
  \/ ProcessTopic(PostDetails)
  \/ WriteOutputs

SpecPosts == InitPosts /\ [][NextPosts]_vars

(* ------------------------------ claims ---------------------------------- *)
Range(seq) == { seq[i] : i \in DOMAIN seq }

\* positions of all_topics the topic loop has passed
Passed == 1..Len(outcome)

\* the range of the configuration read off the timestamp string itself: a
\* second after the first of the range and before its last, or the last second
\* of the range with nothing but zeros after it
WithinRange(stamp) ==
  /\ stamp.sec >= DATE_FROM.sec
  /\ \/ stamp.sec < DATE_TO.sec
     \/ /\ stamp.sec = DATE_TO.sec
        /\ stamp.frac # NoFrac => \A i \in DOMAIN stamp.frac : stamp.frac[i] = 0

InRangePositions == { i \in Passed : WithinRange(all_topics[i]["created_at"]) }

FailedPositions == { i \in Passed : outcome[i] = "fetch_failed" }

RECURSIVE SumOver(_, _)
SumOver(S, f) ==
  IF S = {} THEN 0
  ELSE LET x == CHOOSE y \in S : TRUE IN Len(f[x]["posts"]) + SumOver(S \ {x}, f)

\* C1: at the end of the run a topic whose every detail fetch failed has no
\* record in the combined file and no file of its own, and total_topics of the
\* summary counts the in-range topics less those whose fetch failed.
C1_FailedTopicNotCounted ==
  pc = "done" =>
    /\ \A i \in FailedPositions :
         (\A j \in Passed : all_topics[j]["id"] = all_topics[i]["id"] => j \in FailedPositions)
           => /\ \A r \in Range(combinedFile[1]) : r.topic_id # all_topics[i]["id"]
              /\ topic_filename(all_topics[i]["id"]) \notin DOMAIN topicFiles
    /\ summaryFile[1].total_topics = Cardinality(InRangePositions \ FailedPositions)

\* C2: at the end of the run the combined file holds as many post records as
\* the per-topic files written by the run hold together.
C2_CombinedEqualsSumOfTopicFiles ==
  pc = "done" => Len(combinedFile[1]) = SumOver(DOMAIN topicFiles, topicFiles)

\* C3: the filenames the summary lists are exactly the per-topic files the run
\* wrote.
C3_SummaryListsWrittenFiles ==
  pc = "done" => Range(summaryFile[1].individual_topics) = DOMAIN topicFiles

\* C4: a listing page is requested only under a persisted session the probe
\* would accept.
C4_ScrapeOnlyWithUsableSession ==
  requested # <<>> => authFile = "valid"

\* C6: no timeout of the probe, of a listing page or of a topic detail ends
\* the run.
C6_TimeoutNeverEndsRun ==
  abortCause \notin {"probe_timeout", "list_timeout", "detail_timeout"}

\* C5: after a failed probe the login runs once, stores the session once and
\* is over before the first listing page is requested; after a probe that
\* succeeded it never runs.
C5_LoginOnceAfterFailedProbe ==
  /\ probeResult = "ok" => loginCount = 0 /\ authWrites = 0
  /\ probeResult = "failed" =>
       /\ loginCount <= 1
       /\ pc = "main" => loginCount = 0
       /\ requested # <<>> => loginCount = 1 /\ authWrites = 1 /\ pc # "login"

C5_Witness ==
  /\ probeResult = "failed"
  /\ loginCount = 1
  /\ authWrites = 1
  /\ requested = <<0>>

\* the posts of the stream that topic_data carries
FetchedPosts == topic_data[1]["post_stream"]["posts"]

RepliesTo(n) ==
  { i \in DOMAIN FetchedPosts :
      "reply_to_post_number" \in DOMAIN FetchedPosts[i]
        /\ FetchedPosts[i]["reply_to_post_number"] = n }

\* C7: reply_count of every record emitted for a topic is the number of posts
\* of the fetched stream that reply to the record's post number.
C7_ReplyCountCountsStream ==
  topic_data # <<>> =>
    \A i \in DOMAIN topic_posts :
      topic_posts[i].reply_count = Cardinality(RepliesTo(topic_posts[i].post_number))

\* a record with two replies, one of them from a post that was not emitted
C7_Witness ==
  /\ topic_data # <<>>
  /\ Len(topic_posts) < Len(FetchedPosts)
  /\ \E i \in DOMAIN topic_posts : topic_posts[i].reply_count = 2

\* the accepted-answer id the topic detail declares: the first present of the
\* two fields
DeclaredAccepted ==
  LET data == topic_data[1]
  IN  IF "accepted_answer" \in DOMAIN data THEN data["accepted_answer"]
      ELSE IF "accepted_answer_post_id" \in DOMAIN data
      THEN data["accepted_answer_post_id"]
      ELSE None

AcceptedRecords == { i \in DOMAIN topic_posts : topic_posts[i].is_accepted_answer }

\* C8: of the records emitted for a topic at most one is the accepted answer,
\* and one is only if the topic declares an accepted-answer id and it is the
\* id of the record's post.
C8_AtMostOneAccepted ==
  topic_data # <<>> =>
    /\ Cardinality(AcceptedRecords) <= 1
    /\ \A i \in AcceptedRecords :
         DeclaredAccepted # None /\ topic_posts[i].post_id = DeclaredAccepted

\* two records, the second accepted by the first field while the second field
\* names the other post
C8_Witness ==
  /\ topic_data # <<>>
  /\ Len(topic_posts) = 2
  /\ AcceptedRecords = {2}
  /\ {"accepted_answer", "accepted_answer_post_id"} \subseteq DOMAIN topic_data[1]
  /\ topic_data[1]["accepted_answer_post_id"] = topic_posts[1].post_id

\* C9: a topic the loop has passed was fetched and counted exactly when its
\* creation timestamp is within the range, both ends included; records, files
\* and summary entries come from in-range topics only.
C9_ExactlyInRangeProcessed ==
  /\ \A i \in Passed :
       IF i \in InRangePositions
       THEN i \in Range(fetched) /\ outcome[i] # "out_of_range"
       ELSE i \notin Range(fetched) /\ outcome[i] = "out_of_range"
  /\ processed_topics = Cardinality(InRangePositions)
  /\ Len(fetched) = Cardinality(InRangePositions)
  /\ \A r \in Range(all_posts) :
       \E i \in InRangePositions : all_topics[i]["id"] = r.topic_id
  /\ \A f \in DOMAIN topicFiles :
       \E i \in InRangePositions : topic_filename(all_topics[i]["id"]) = f
  /\ pc = "done" =>
       \A f \in Range(summaryFile[1].individual_topics) :
         \E i \in InRangePositions : topic_filename(all_topics[i]["id"]) = f

\* a finished run that listed the topic created at the last instant of the
\* range and one created just after it
C9_Witness ==
  /\ pc = "done"
  /\ \E i, j \in Passed :
       /\ all_topics[i]["created_at"] = StampTo
       /\ outcome[i] = "file_written"
       /\ all_topics[j]["created_at"] = StampAfter
       /\ outcome[j] = "out_of_range"

RECURSIVE Flatten(_)
Flatten(ss) == IF ss = <<>> THEN <<>> ELSE Head(ss) \o Flatten(Tail(ss))

ListingOver == pageTopics # <<>> /\ pageTopics[Len(pageTopics)] = <<>>

\* C10: the pages are requested in the order 0, 1, 2, ..., each once; the page
\* with no topics is the last one requested and ends the listing without an
\* error; all_topics is the topics of the pages before it, in page order.
C10_ListingStopsAtFirstEmptyPage ==
  /\ requested = [i \in 1..Len(requested) |-> i - 1]
  /\ \A i \in 1..(Len(pageTopics) - 1) : pageTopics[i] # <<>>
  /\ all_topics = Flatten(pageTopics)
  /\ ListingOver =>
       /\ Len(requested) = Len(pageTopics)
       /\ pc # "list"
       /\ abortCause \notin {"list_timeout", "list_not_json"}
  /\ ~ListingOver =>
       /\ pc \in {"main", "login", "list", "aborted"}
       /\ page_num = Len(pageTopics)
       /\ pc = "aborted" => abortCause # "timestamp"

\* two pages of one topic each, then the empty page; the loop has gone on
C10_Witness ==
  /\ requested = <<0, 1, 2>>
  /\ Len(all_topics) = 2
  /\ all_topics[1] # all_topics[2]
  /\ Len(pageTopics) = 3
  /\ pageTopics[3] = <<>>
  /\ pc = "done"

====
